---- MODULE Spec2Model ----
(***************************************************************************)
(* Model of the SPX/VIX strategy monitor: the Streamlit dashboard (app.py) *)
(* and the daily Telegram alert (run_daily_check.py).                      *)
(*                                                                         *)
(* Numbers.  Python floats are modelled as exact rationals [n, d] with     *)
(* d > 0; d = 0 is NaN.  Comparisons with NaN are false, as in IEEE 754.   *)
(* Rounding error of binary floating point is not modelled.                *)
(*                                                                         *)
(* Text.  A text is a sequence of ASCII tokens; the characters "<", ">"    *)
(* and "&" are always tokens of their own, so that substring tests of the  *)
(* code ("SMA90" in rule) are tests on consecutive tokens.  Non-ASCII      *)
(* characters of the source are transliterated: the em dash is "--", the   *)
(* Greek delta is "d", emoji are dropped.                                  *)
(***************************************************************************)
EXTENDS Integers, Sequences, FiniteSets, TLC

VARIABLES
    spx_price,      \* latest SPX close (app.py: latest_spx)
    vix_price,      \* latest VIX close (app.py: latest_vix)
    sma90,          \* latest 90-day average
    sma125,         \* latest 125-day average
    sma150,         \* latest 150-day average
    strategies,     \* run_daily_check.py: list of (name, rule, is_on)
    strat_lines,    \* run_daily_check.py: one text line per strategy
    regime,         \* run_daily_check.py: regime label, "" before it is set
    df_strat,       \* app.py: rows of the current-state table
    regime_label,   \* app.py: regime badge text, "" before it is set
    prog,           \* the script that runs: "alert", "app", or "none"
    pc,             \* position of the running script
    creds,          \* TELEGRAM_BOT_TOKEN and TELEGRAM_CHAT_ID are both set
    dashboard_url,  \* DASHBOARD_URL, a text (empty when unset)
    last_resp,      \* rows of the provider response of the latest download
    spx_close,      \* normalized SPX series, rows [t, v]
    vix_close,      \* normalized VIX series, rows [t, v]
    prev_spx,       \* close before the latest, NaN when there is none
    prev_vix,
    sent,           \* texts handed to send_telegram_message, in order
    posts,          \* outcomes of the HTTP POSTs made, in order
    printed,        \* lines printed by send_telegram_message
    raised,         \* an exception left the running script
    st_errors,      \* number of st.error calls of the dashboard
    kpis,           \* dashboard: the five metric texts
    timezone,       \* TIMEZONE, a text
    fetches,        \* tickers handed to the loader, in order
    df_storico,     \* app.py: rows of the joined history of tab 3
    closes,         \* SpecSMA: the close column fed to rolling()
    roll,           \* SpecSMA: per window, the running sum and count
    frame,          \* SpecNorm: a provider table, [tz, rows]
    series_alert,   \* SpecNorm: what load_close_series made of it
    series_app,     \* SpecNorm: what load_data made of it
    columns,        \* SpecCols: the column labels of a provider table
    pick_alert,     \* SpecCols: the field load_close_series takes
    pick_app        \* SpecCols: the field load_data takes

evalVars == <<spx_price, vix_price, sma90, sma125, sma150,
              strategies, strat_lines, regime, df_strat, regime_label>>

runVars == <<prog, pc, creds, dashboard_url, last_resp, spx_close, vix_close,
             prev_spx, prev_vix, sent, posts, printed, raised, st_errors, kpis,
             timezone, fetches, df_storico>>

smaVars == <<closes, roll>>

normVars == <<frame, series_alert, series_app>>

colVars == <<columns, pick_alert, pick_app>>

vars == <<evalVars, runVars, smaVars, normVars, colVars>>

(***************************************************************************)
(* Floats as rationals                                                     *)
(***************************************************************************)
NaN == [n |-> 0, d |-> 0]

R(i) == [n |-> i, d |-> 1]

IsNaN(x) == x.d = 0

Gt(a, b) == ~IsNaN(a) /\ ~IsNaN(b) /\ a.n * b.d > b.n * a.d

Lt(a, b) == ~IsNaN(a) /\ ~IsNaN(b) /\ a.n * b.d < b.n * a.d

Ge(a, b) == ~IsNaN(a) /\ ~IsNaN(b) /\ a.n * b.d >= b.n * a.d

\* x * (num / den), with den > 0
Scale(x, num, den) == [n |-> x.n * num, d |-> x.d * den]

Abs(i) == IF i < 0 THEN -i ELSE i

\* Thresholds and windows written as literals in both scripts.
VIX_LOW == 15

VIX_HIGH == 20

\* (a / b - 1) * 100, NaN when b is NaN or zero
pct(a, b) ==
    IF IsNaN(b) \/ b.n = 0 THEN NaN
    ELSE IF IsNaN(a) THEN NaN
    ELSE LET num == 100 * (a.n * b.d - b.n * a.d)
             den == a.d * b.n
         IN  IF den < 0 THEN [n |-> -num, d |-> -den] ELSE [n |-> num, d |-> den]

(***************************************************************************)
(* Number formatting: Python's format specs ".2f", "+.2f" and ",.2f"       *)
(***************************************************************************)
\* |x| in hundredths, rounded to nearest, ties to even
Hundredths(x) ==
    LET p == Abs(x.n) * 100
        q == p \div x.d
        r == p % x.d
    IN  IF 2 * r < x.d THEN q
        ELSE IF 2 * r > x.d THEN q + 1
        ELSE IF q % 2 = 0 THEN q ELSE q + 1

Pad2(i) == IF i < 10 THEN "0" \o ToString(i) ELSE ToString(i)

Pad3(i) == IF i < 10 THEN "00" \o ToString(i)
           ELSE IF i < 100 THEN "0" \o ToString(i) ELSE ToString(i)

RECURSIVE Grouped(_)
Grouped(i) == IF i < 1000 THEN ToString(i)
              ELSE Grouped(i \div 1000) \o "," \o Pad3(i % 1000)

\* f"{x:.2f}"
Fixed2(x) ==
    IF IsNaN(x) THEN "nan"
    ELSE LET h == Hundredths(x)
         IN  (IF x.n < 0 THEN "-" ELSE "")
             \o ToString(h \div 100) \o "." \o Pad2(h % 100)

\* f"{x:+.2f}"
Signed2(x) ==
    IF IsNaN(x) THEN "+nan"
    ELSE LET h == Hundredths(x)
         IN  (IF x.n < 0 THEN "-" ELSE "+")
             \o ToString(h \div 100) \o "." \o Pad2(h % 100)

\* f"{x:,.2f}"
Grouped2(x) ==
    LET h == Hundredths(x)
    IN  (IF x.n < 0 THEN "-" ELSE "")
        \o Grouped(h \div 100) \o "." \o Pad2(h % 100)

\* The marker both scripts print for an undefined number (an em dash).
DASH == "--"

fmt_num(x) == IF IsNaN(x) THEN DASH ELSE Grouped2(x)

(***************************************************************************)
(* Texts                                                                   *)
(***************************************************************************)
\* Python's  pat in text  on token sequences
Contains(text, pat) ==
    \E i \in 1..(Len(text) - Len(pat) + 1) :
        SubSeq(text, i, i + Len(pat) - 1) = pat

RECURSIVE Join(_, _)
\* sep.join(parts), each part a text
Join(parts, sep) ==
    IF Len(parts) = 0 THEN <<>>
    ELSE IF Len(parts) = 1 THEN parts[1]
    ELSE parts[1] \o sep \o Join(Tail(parts), sep)

\* The rule labels of the two tables.
RULE_SMA90_LT15   == <<"SPX", ">", "SMA90", " ", "&", " ", "VIX", "<", "15">>
RULE_SMA125_LT15  == <<"SPX", ">", "SMA125", " ", "&", " ", "VIX", "<", "15">>
RULE_SMA150_GT20  == <<"SPX", "<", "SMA150", " ", "&", " ", "VIX", ">", "20">>
RULE_SMA125_LT20  == <<"SPX", ">", "SMA125", " ", "&", " ", "VIX", "<", "20">>
RULE_MGC          == <<"SPX", ">", "=", "125MA", "-2%", " ", "&", " ", "VIX", "<", "20">>
RULE_MNQ_TREND    == <<"SPX", ">", "125MA", "+2%", " ", "&", " ", "VIX", ">", "=", "15">>
RULE_BULL_LT20    == <<"SPX", ">", "125MA", "+2%", " ", "&", " ", "VIX", "<", "20">>
RULE_MYM          == <<"SPX", ">", "125MA", "+2%", " ", "&", " ", "15", "<", "=", "VIX", "<", "20">>

(***************************************************************************)
(* run_daily_check.py: rule table, regime and strategy lines               *)
(***************************************************************************)
\* strategies = [(name, rule, is_on), ...]
AlertStrategies(p, v, s90, s125, s150) ==
    << [name |-> "M2K SHORT",      rule |-> RULE_SMA90_LT15,
        is_on |-> Gt(p, s90)  /\ Lt(v, R(VIX_LOW))],
       [name |-> "MES SHORT",      rule |-> RULE_SMA125_LT15,
        is_on |-> Gt(p, s125) /\ Lt(v, R(VIX_LOW))],
       [name |-> "MNQ SHORT",      rule |-> RULE_SMA150_GT20,
        is_on |-> Lt(p, s150) /\ Gt(v, R(VIX_HIGH))],
       [name |-> "DVO LONG",       rule |-> RULE_SMA125_LT20,
        is_on |-> Gt(p, s125) /\ Lt(v, R(VIX_HIGH))],
       [name |-> "KeyCandle LONG", rule |-> RULE_SMA125_LT20,
        is_on |-> Gt(p, s125) /\ Lt(v, R(VIX_HIGH))],
       [name |-> "Z-SCORE LONG",   rule |-> RULE_SMA125_LT20,
        is_on |-> Gt(p, s125) /\ Lt(v, R(VIX_HIGH))] >>

\* Mutant: the final else branch is missing, the label stays unset.
AlertRegime_NoElse(p, v, s125, s150) ==
    IF Gt(p, s125) /\ Lt(v, R(VIX_HIGH)) THEN "RISK-ON"
    ELSE IF Lt(p, s150) \/ Gt(v, R(VIX_HIGH)) THEN "RISK-OFF"
    ELSE ""

\* Mutant: the risk-off branch joins its two tests with "and".
AlertRegime_OffAnd(p, v, s125, s150) ==
    IF Gt(p, s125) /\ Lt(v, R(VIX_HIGH)) THEN "RISK-ON"
    ELSE IF Lt(p, s150) /\ Gt(v, R(VIX_HIGH)) THEN "RISK-OFF"
    ELSE "NEUTRAL"

\* Mutant: the risk-off branch forgets the volatility test.
AlertRegime_OffNoVix(p, v, s125, s150) ==
    IF Gt(p, s125) /\ Lt(v, R(VIX_HIGH)) THEN "RISK-ON"
    ELSE IF Lt(p, s150) THEN "RISK-OFF"
    ELSE "NEUTRAL"

\* if / elif / else of the regime
AlertRegime(p, v, s125, s150) ==
    IF Gt(p, s125) /\ Lt(v, R(VIX_HIGH)) THEN "RISK-ON"
    ELSE IF Lt(p, s150) \/ Gt(v, R(VIX_HIGH)) THEN "RISK-OFF"
    ELSE "NEUTRAL"

\* the margins list of one strategy, each margin a text
AlertMargins(rule, p, v, s90, s125, s150) ==
    (IF Contains(rule, <<"SMA90">>)
        THEN << <<"dSPX/SMA90  ", Signed2(pct(p, s90)), "%">> >> ELSE <<>>)
    \o (IF Contains(rule, <<"SMA125">>)
        THEN << <<"dSPX/SMA125 ", Signed2(pct(p, s125)), "%">> >> ELSE <<>>)
    \o (IF Contains(rule, <<"SMA150">>)
        THEN << <<"dSPX/SMA150 ", Signed2(pct(p, s150)), "%">> >> ELSE <<>>)
    \o (IF Contains(rule, <<"VIX", "<", "15">>)
        THEN << <<"VIX ", fmt_num(v), " (", "<", "15)">> >> ELSE <<>>)
    \o (IF Contains(rule, <<"VIX", "<", "20">>)
        THEN << <<"VIX ", fmt_num(v), " (", "<", "20)">> >> ELSE <<>>)
    \o (IF Contains(rule, <<"VIX", ">", "20">>)
        THEN << <<"VIX ", fmt_num(v), " (", ">", "20)">> >> ELSE <<>>)

RECURSIVE LJust(_, _)
\* f"{s:<w}"
LJust(s, w) == IF Len(s) >= w THEN s ELSE LJust(s \o " ", w)

\* f"{name:<14} {chip}  {' | '.join(margins)}"
AlertStratLine(st, p, v, s90, s125, s150) ==
    << LJust(st.name, 14), " ", IF st.is_on THEN "ATTIVA " ELSE "NON ATTIVA", "  " >>
    \o Join(AlertMargins(st.rule, p, v, s90, s125, s150), <<" | ">>)

AlertStratLines(sts, p, v, s90, s125, s150) ==
    [i \in 1..Len(sts) |-> AlertStratLine(sts[i], p, v, s90, s125, s150)]

(***************************************************************************)
(* app.py: regime badge and strategy_rows                                  *)
(***************************************************************************)
\* Mutant: risk-on accepts volatility equal to the upper threshold.
AppRegime_OnLe(p, v, s125, s150) ==
    IF Gt(p, s125) /\ Ge(R(VIX_HIGH), v) THEN "RISK-ON"
    ELSE IF Lt(p, s150) \/ Gt(v, R(VIX_HIGH)) THEN "RISK-OFF"
    ELSE "NEUTRAL"

AppRegime(p, v, s125, s150) ==
    IF Gt(p, s125) /\ Lt(v, R(VIX_HIGH)) THEN "RISK-ON"
    ELSE IF Lt(p, s150) \/ Gt(v, R(VIX_HIGH)) THEN "RISK-OFF"
    ELSE "NEUTRAL"

mgc_active(p, v, s125) == Ge(p, Scale(s125, 98, 100)) /\ Lt(v, R(VIX_HIGH))

\* Mutant: the volatility test is strict.
mnq_active_Strict(p, v, s125) == Gt(p, Scale(s125, 102, 100)) /\ Gt(v, R(VIX_LOW))

mnq_active(p, v, s125) == Gt(p, Scale(s125, 102, 100)) /\ Ge(v, R(VIX_LOW))

bias_active(p, v, s125) == Gt(p, Scale(s125, 102, 100)) /\ Lt(v, R(VIX_HIGH))

donch_active(p, v, s125) == Gt(p, Scale(s125, 102, 100)) /\ Lt(v, R(VIX_HIGH))

mym_active(p, v, s125) ==
    Gt(p, Scale(s125, 102, 100)) /\ (Ge(v, R(VIX_LOW)) /\ Lt(v, R(VIX_HIGH)))

\* Mutant: the dashboard tests MES SHORT against the upper threshold.
AppRules_MesHigh(p, v, s90, s125, s150) ==
    << [name |-> "M2K SHORT",       cond |-> RULE_SMA90_LT15,
        active |-> Gt(p, s90)  /\ Lt(v, R(VIX_LOW))],
       [name |-> "MES SHORT",       cond |-> RULE_SMA125_LT15,
        active |-> Gt(p, s125) /\ Lt(v, R(VIX_HIGH))],
       [name |-> "MNQ SHORT",       cond |-> RULE_SMA150_GT20,
        active |-> Lt(p, s150) /\ Gt(v, R(VIX_HIGH))],
       [name |-> "ZScoreCorr LONG", cond |-> RULE_SMA125_LT20,
        active |-> Gt(p, s125) /\ Lt(v, R(VIX_HIGH))],
       [name |-> "MGC ZScore",      cond |-> RULE_MGC,
        active |-> mgc_active(p, v, s125)],
       [name |-> "MNQ TrendFoll",   cond |-> RULE_MNQ_TREND,
        active |-> mnq_active(p, v, s125)],
       [name |-> "Bias Intraweek",  cond |-> RULE_BULL_LT20,
        active |-> bias_active(p, v, s125)],
       [name |-> "Donchian Corr",   cond |-> RULE_BULL_LT20,
        active |-> donch_active(p, v, s125)],
       [name |-> "MYM Sushi",       cond |-> RULE_MYM,
        active |-> mym_active(p, v, s125)] >>

\* rules = {name: (cond, active), ...}, in insertion order
AppRules(p, v, s90, s125, s150) ==
    << [name |-> "M2K SHORT",       cond |-> RULE_SMA90_LT15,
        active |-> Gt(p, s90)  /\ Lt(v, R(VIX_LOW))],
       [name |-> "MES SHORT",       cond |-> RULE_SMA125_LT15,
        active |-> Gt(p, s125) /\ Lt(v, R(VIX_LOW))],
       [name |-> "MNQ SHORT",       cond |-> RULE_SMA150_GT20,
        active |-> Lt(p, s150) /\ Gt(v, R(VIX_HIGH))],
       [name |-> "ZScoreCorr LONG", cond |-> RULE_SMA125_LT20,
        active |-> Gt(p, s125) /\ Lt(v, R(VIX_HIGH))],
       [name |-> "MGC ZScore",      cond |-> RULE_MGC,
        active |-> mgc_active(p, v, s125)],
       [name |-> "MNQ TrendFoll",   cond |-> RULE_MNQ_TREND,
        active |-> mnq_active(p, v, s125)],
       [name |-> "Bias Intraweek",  cond |-> RULE_BULL_LT20,
        active |-> bias_active(p, v, s125)],
       [name |-> "Donchian Corr",   cond |-> RULE_BULL_LT20,
        active |-> donch_active(p, v, s125)],
       [name |-> "MYM Sushi",       cond |-> RULE_MYM,
        active |-> mym_active(p, v, s125)] >>

AppMargins(cond, p, v, s90, s125, s150) ==
    (IF Contains(cond, <<"SMA90">>)
        THEN << <<"dSPX90 ", Signed2(pct(p, s90)), "%">> >> ELSE <<>>)
    \o (IF Contains(cond, <<"SMA125">>) \/ Contains(cond, <<"125MA">>)
        THEN << <<"dSPX125 ", Signed2(pct(p, s125)), "%">> >> ELSE <<>>)
    \o (IF Contains(cond, <<"SMA150">>)
        THEN << <<"dSPX150 ", Signed2(pct(p, s150)), "%">> >> ELSE <<>>)
    \o (IF Contains(cond, <<"VIX">>)
        THEN << <<"VIX ", Fixed2(v)>> >> ELSE <<>>)

\* the DataFrame strategy_rows returns, one record per row
strategy_rows(p, v, s90, s125, s150) ==
    LET rules == AppRules(p, v, s90, s125, s150)
    IN  [i \in 1..Len(rules) |->
            [Strategia |-> rules[i].name,
             Regola    |-> rules[i].cond,
             Stato     |-> IF rules[i].active THEN "ATTIVA" ELSE "NON ATTIVA",
             Margini   |-> Join(AppMargins(rules[i].cond, p, v, s90, s125, s150),
                                <<" | ">>)]]

(***************************************************************************)
(* Values of the variables a specification does not use                    *)
(***************************************************************************)
RunIdle ==
    /\ prog = "none" /\ pc = "idle" /\ creds = FALSE /\ dashboard_url = <<>>
    /\ last_resp = <<>> /\ spx_close = <<>> /\ vix_close = <<>>
    /\ prev_spx = NaN /\ prev_vix = NaN
    /\ sent = <<>> /\ posts = <<>> /\ printed = <<>> /\ raised = FALSE
    /\ st_errors = 0 /\ kpis = <<>>
    /\ timezone = <<>> /\ fetches = <<>> /\ df_storico = <<>>

SmaIdle == closes = <<>> /\ roll = <<>>

\* no table, no series yet
NoFrame == [tz |-> "none", rows |-> <<>>]

NormIdle == frame = NoFrame /\ series_alert = NoFrame /\ series_app = NoFrame

\* no column labels, no field taken yet
NoColumns == [multi |-> FALSE, cols |-> <<>>]

NoPick == [kind |-> "unset", cols |-> {}]

ColIdle == columns = NoColumns /\ pick_alert = NoPick /\ pick_app = NoPick

EvalIdle ==
    /\ spx_price = NaN /\ vix_price = NaN
    /\ sma90 = NaN /\ sma125 = NaN /\ sma150 = NaN
    /\ strategies = <<>> /\ strat_lines = <<>> /\ regime = ""
    /\ df_strat = <<>> /\ regime_label = ""

(***************************************************************************)
(* SpecEval: the evaluation of both scripts applied to the same five       *)
(* latest values, drawn from small sets.                                   *)
(***************************************************************************)
\* Every combination of these prices and averages is the latest row of some
\* series of 150 positive closes (the sums 150*sma150 - 125*sma125 and
\* 125*sma125 - 90*sma90 of the older closes stay positive).
PriceVals == {4800, 4900, 4950, 5000, 5100}

AvgVals == {4700, 4800, 4900, 4950, 5000}

VixVals == {12, 15, 20, 25}

InitEval ==
    /\ spx_price \in {R(i) : i \in PriceVals}
    /\ vix_price \in {R(i) : i \in VixVals}
    /\ sma90  \in {R(i) : i \in AvgVals}
    /\ sma125 \in {R(i) : i \in AvgVals}
    /\ sma150 \in {R(i) : i \in AvgVals}
    /\ strategies = <<>>
    /\ strat_lines = <<>>
    /\ regime = ""
    /\ df_strat = <<>>
    /\ regime_label = ""
    /\ RunIdle
    /\ SmaIdle
    /\ NormIdle
    /\ ColIdle

\* run_daily_check.py lines 150-166 and 189-200
AlertEvaluate ==
    /\ regime = ""
    /\ strategies' = AlertStrategies(spx_price, vix_price, sma90, sma125, sma150)
    /\ regime' = AlertRegime(spx_price, vix_price, sma125, sma150)
    /\ strat_lines' = AlertStratLines(strategies', spx_price, vix_price,
                                      sma90, sma125, sma150)
    /\ UNCHANGED <<spx_price, vix_price, sma90, sma125, sma150, df_strat, regime_label>>
    /\ UNCHANGED <<runVars, smaVars, normVars, colVars>>

\* app.py lines 143-148 and 244-308
AppEvaluate ==
    /\ regime_label = ""
    /\ regime_label' = AppRegime(spx_price, vix_price, sma125, sma150)
    /\ df_strat' = strategy_rows(spx_price, vix_price, sma90, sma125, sma150)
    /\ UNCHANGED <<spx_price, vix_price, sma90, sma125, sma150,
                   strategies, strat_lines, regime>>
    /\ UNCHANGED <<runVars, smaVars, normVars, colVars>>

NextEval == AlertEvaluate \/ AppEvaluate

SpecEval == InitEval /\ [][NextEval]_vars

(***************************************************************************)
(* Normalization of a provider response (load_close_series, load_data).    *)
(* A response is a sequence of rows [t, c]: t the timestamp, c the cell of *)
(* the selected close column, [k, x] with k one of "num" (the number x),   *)
(* "nan" (missing) and "str" (text that is not a number).                  *)
(***************************************************************************)
\* the cells a column can hold, its numbers being vals
Cells(vals) ==
    {[k |-> "num", x |-> x] : x \in vals}
    \cup {[k |-> "nan", x |-> 0], [k |-> "str", x |-> 0]}

\* pd.to_numeric(s, errors="coerce")
to_numeric(rows) ==
    [i \in 1..Len(rows) |->
        [t |-> rows[i].t,
         v |-> IF rows[i].c.k = "num" THEN R(rows[i].c.x) ELSE NaN]]

dropna(rows) == SelectSeq(rows, LAMBDA r : ~IsNaN(r.v))

RECURSIVE KeepLastFrom(_, _)
KeepLastFrom(rows, i) ==
    IF i > Len(rows) THEN <<>>
    ELSE (IF \E j \in (i + 1)..Len(rows) : rows[j].t = rows[i].t
             THEN <<>> ELSE <<rows[i]>>)
         \o KeepLastFrom(rows, i + 1)

\* Mutant: duplicated(keep="first"), the default of pandas.
drop_duplicated_last_KeepFirst(rows) ==
    LET Rev(s) == [i \in 1..Len(s) |-> s[Len(s) + 1 - i]]
    IN  Rev(KeepLastFrom(Rev(rows), 1))

\* s[~s.index.duplicated(keep="last")]
drop_duplicated_last(rows) == KeepLastFrom(rows, 1)

RECURSIVE InsertByIndex(_, _)
InsertByIndex(sorted, r) ==
    IF Len(sorted) = 0 THEN <<r>>
    ELSE IF sorted[Len(sorted)].t <= r.t THEN Append(sorted, r)
    ELSE Append(InsertByIndex(SubSeq(sorted, 1, Len(sorted) - 1), r),
                sorted[Len(sorted)])

RECURSIVE SortPrefix(_, _)
SortPrefix(rows, i) ==
    IF i = 0 THEN <<>> ELSE InsertByIndex(SortPrefix(rows, i - 1), rows[i])

\* Mutant: the rows are reversed (a newest-first table assumed), not sorted.
sort_index_Reversed(rows) == [i \in 1..Len(rows) |-> rows[Len(rows) + 1 - i]]

\* s.sort_index(): ascending by timestamp, stable
sort_index(rows) == SortPrefix(rows, Len(rows))

\* Mutant: missing values are not dropped.
load_close_series_NoDropna(resp) ==
    IF Len(resp) = 0 THEN <<>>
    ELSE sort_index(drop_duplicated_last(to_numeric(resp)))

\* run_daily_check.py: the series load_close_series returns for a response
load_close_series(resp) ==
    IF Len(resp) = 0 THEN <<>>
    ELSE sort_index(drop_duplicated_last(dropna(to_numeric(resp))))

\* app.py: the Close column of the frame load_data returns for a response
load_data(resp) ==
    IF Len(resp) = 0 THEN <<>>
    ELSE sort_index(drop_duplicated_last(dropna(to_numeric(resp))))

(***************************************************************************)
(* SpecNorm: both loaders applied to the same provider table.  A table is  *)
(* [tz, rows]: tz says whether its index carries a time zone ("aware") or  *)
(* not ("naive"); rows are as above.  A timestamp t is the day of the row; *)
(* with the daily interval both ways of removing the zone (tz_convert to   *)
(* UTC in the alert, tz_localize in the dashboard) shift every row by less *)
(* than a day, so the days, their order and their distinctness stay.       *)
(***************************************************************************)
\* run_daily_check.py _tz_naive_index: an aware index is converted, a naive
\* one is left alone
tz_naive_index(tz) == IF tz # "naive" THEN "naive" ELSE tz

\* app.py lines 95-98: out.index.tz_localize(None)
tz_localize_none(tz) == "naive"

\* run_daily_check.py load_close_series on a table: an empty table gives a
\* new empty series
LoadCloseSeriesFrame(fr) ==
    IF Len(fr.rows) = 0 THEN [tz |-> "naive", rows |-> <<>>]
    ELSE [tz |-> tz_naive_index(fr.tz), rows |-> load_close_series(fr.rows)]

\* app.py load_data on a table: an empty table is returned as it is
LoadDataFrame(fr) ==
    IF Len(fr.rows) = 0 THEN fr
    ELSE [tz |-> tz_localize_none(fr.tz), rows |-> load_data(fr.rows)]

MaxNormRows == 3

NormTimes == {1, 2, 3}

NormCloseVals == {4900, 5000}

Frames ==
    [tz : {"naive", "aware"},
     rows : UNION {[1..n -> [t : NormTimes, c : Cells(NormCloseVals)]] :
                   n \in 0..MaxNormRows}]

InitNorm ==
    /\ EvalIdle
    /\ RunIdle
    /\ SmaIdle
    /\ ColIdle
    /\ frame \in Frames
    /\ series_alert = NoFrame
    /\ series_app = NoFrame

\* run_daily_check.py lines 75-113
NormAlert ==
    /\ series_alert = NoFrame
    /\ series_alert' = LoadCloseSeriesFrame(frame)
    /\ UNCHANGED <<evalVars, runVars, smaVars, colVars, frame, series_app>>

\* app.py lines 54-99
NormApp ==
    /\ series_app = NoFrame
    /\ series_app' = LoadDataFrame(frame)
    /\ UNCHANGED <<evalVars, runVars, smaVars, colVars, frame, series_alert>>

NextNorm == NormAlert \/ NormApp

SpecNorm == InitNorm /\ [][NextNorm]_vars

(***************************************************************************)
(* SpecCols: the choice of the close column by both loaders.  The labels   *)
(* of a table are [multi, cols]: multi says whether the columns are a      *)
(* two-level MultiIndex (field, ticker); cols lists, in the order of the   *)
(* table, each column's field f, its ticker tk ("" in a flat table) and    *)
(* whether its dtype is numeric.  A choice is [kind, cols]: one column     *)
(* ("col"), the row mean of several ("mean"), or the IndexError of         *)
(* iloc[:, 0] on a table without columns ("raise").                        *)
(***************************************************************************)
ColumnsOf(labels, f) == {i \in 1..Len(labels) : labels[i].f = f}

ColumnsKeyed(labels, f, tk) ==
    {i \in 1..Len(labels) : labels[i].f = f /\ labels[i].tk = tk}

NumberColumns(labels) == {i \in 1..Len(labels) : labels[i].num}

First(S) == CHOOSE i \in S : \A j \in S : i <= j

\* sub.iloc[:, 0], and the Series or first column that df[key] gives
iloc0(S) ==
    IF S = {} THEN [kind |-> "raise", cols |-> {}]
    ELSE [kind |-> "col", cols |-> {First(S)}]

\* run_daily_check.py lines 86-109
SelectAlert(c, ticker) ==
    IF c.multi
    THEN IF ColumnsKeyed(c.cols, "Close", ticker) # {}
         THEN iloc0(ColumnsKeyed(c.cols, "Close", ticker))
         ELSE IF ColumnsOf(c.cols, "Close") # {}
         THEN iloc0(ColumnsOf(c.cols, "Close"))
         ELSE IF ColumnsKeyed(c.cols, "Adj Close", ticker) # {}
         THEN iloc0(ColumnsKeyed(c.cols, "Adj Close", ticker))
         ELSE IF ColumnsOf(c.cols, "Adj Close") # {}
         THEN iloc0(ColumnsOf(c.cols, "Adj Close"))
         ELSE iloc0(NumberColumns(c.cols))
    ELSE IF ColumnsOf(c.cols, "Close") # {}
         THEN iloc0(ColumnsOf(c.cols, "Close"))
         ELSE IF ColumnsOf(c.cols, "Adj Close") # {}
         THEN iloc0(ColumnsOf(c.cols, "Adj Close"))
         ELSE iloc0(NumberColumns(c.cols))

\* app.py lines 66-89
SelectApp(c, ticker) ==
    IF c.multi
    THEN IF ColumnsKeyed(c.cols, "Close", ticker) # {}
         THEN iloc0(ColumnsKeyed(c.cols, "Close", ticker))
         ELSE IF ColumnsOf(c.cols, "Close") # {}
         THEN (IF Cardinality(ColumnsOf(c.cols, "Close")) = 1
               THEN iloc0(ColumnsOf(c.cols, "Close"))
               ELSE [kind |-> "mean", cols |-> ColumnsOf(c.cols, "Close")])
         ELSE IF ColumnsKeyed(c.cols, "Adj Close", ticker) # {}
         THEN iloc0(ColumnsKeyed(c.cols, "Adj Close", ticker))
         ELSE iloc0(NumberColumns(c.cols))
    ELSE IF ColumnsOf(c.cols, "Close") # {}
         THEN iloc0(ColumnsOf(c.cols, "Close"))
         ELSE IF ColumnsOf(c.cols, "Adj Close") # {}
         THEN iloc0(ColumnsOf(c.cols, "Adj Close"))
         ELSE iloc0(NumberColumns(c.cols))

\* run_daily_check.py lines 34-35
SPX_TICKER == "^GSPC"

VIX_TICKER == "^VIX"

MaxCols == 3

\* the fields a table can have besides the two close fields
Fields == {"Close", "Adj Close", "High"}

\* the ticker asked for, and another one
ColumnTickers == {SPX_TICKER, "SPY"}

Layouts ==
    {[multi |-> FALSE, cols |-> cs] :
        cs \in UNION {[1..n -> [f : Fields, tk : {""}, num : BOOLEAN]] :
                      n \in 1..MaxCols}}
    \cup
    {[multi |-> TRUE, cols |-> cs] :
        cs \in UNION {[1..n -> [f : Fields, tk : ColumnTickers, num : BOOLEAN]] :
                      n \in 1..MaxCols}}

InitCols ==
    /\ EvalIdle
    /\ RunIdle
    /\ SmaIdle
    /\ NormIdle
    /\ columns \in Layouts
    /\ pick_alert = NoPick
    /\ pick_app = NoPick

\* run_daily_check.py lines 86-109, for the ticker of line 132
ColsAlert ==
    /\ pick_alert = NoPick
    /\ pick_alert' = SelectAlert(columns, SPX_TICKER)
    /\ UNCHANGED <<evalVars, runVars, smaVars, normVars, columns, pick_app>>

\* app.py lines 66-89, for the ticker of line 102
ColsApp ==
    /\ pick_app = NoPick
    /\ pick_app' = SelectApp(columns, SPX_TICKER)
    /\ UNCHANGED <<evalVars, runVars, smaVars, normVars, columns, pick_alert>>

NextCols == ColsAlert \/ ColsApp

SpecCols == InitCols /\ [][NextCols]_vars

(***************************************************************************)
(* rolling(window, min_periods=1).mean(): pandas keeps a running sum and   *)
(* count, adds the entering value and removes the one leaving the window.  *)
(***************************************************************************)
W90 == 90

W125 == 125

W150 == 150

Windows == {W90, W125, W150}

MIN_PERIODS == 1

RollZero == [sum |-> 0, nobs |-> 0]

\* the accumulator after row i of col has entered a window of w rows
RollStep(acc, col, i, w) ==
    IF i > w
    THEN [sum |-> acc.sum + col[i].n - col[i - w].n, nobs |-> acc.nobs]
    ELSE [sum |-> acc.sum + col[i].n, nobs |-> acc.nobs + 1]

\* Mutant: min_periods left at its default, the window length.
RollValue_DefaultMinPeriods(acc, w) ==
    IF acc.nobs >= w THEN [n |-> acc.sum, d |-> acc.nobs] ELSE NaN

\* the mean reported for an accumulator
RollValue(acc, w) ==
    IF acc.nobs >= MIN_PERIODS THEN [n |-> acc.sum, d |-> acc.nobs] ELSE NaN

RECURSIVE RollAcc(_, _, _)
RollAcc(col, w, i) ==
    IF i = 0 THEN RollZero ELSE RollStep(RollAcc(col, w, i - 1), col, i, w)

\* col.rolling(w, min_periods=1).mean() at row i
rolling_mean(col, w, i) == RollValue(RollAcc(col, w, i), w)

CloseColumn(series) == [i \in 1..Len(series) |-> series[i].v]

(***************************************************************************)
(* The joined history of the dashboard (app.py lines 328-356)              *)
(***************************************************************************)
\* app.py lines 109-113: the SPX frame, the close and its three averages
SpxFrame(series) ==
    LET col == CloseColumn(series)
    IN  [i \in 1..Len(series) |->
            [t      |-> series[i].t,
             Close  |-> col[i],
             SMA90  |-> rolling_mean(col, W90, i),
             SMA125 |-> rolling_mean(col, W125, i),
             SMA150 |-> rolling_mean(col, W150, i)]]

\* spx.join(vix_close_series, how='left'): the rows of spx, each with the
\* VIX close of its own timestamp, NaN when the VIX series has none
join_left(rows, vix) ==
    [i \in 1..Len(rows) |->
        LET hits == {j \in 1..Len(vix) : vix[j].t = rows[i].t}
        IN  [t         |-> rows[i].t,
             Close     |-> rows[i].Close,
             SMA90     |-> rows[i].SMA90,
             SMA125    |-> rows[i].SMA125,
             SMA150    |-> rows[i].SMA150,
             VIX_Close |-> IF hits = {} THEN NaN
                           ELSE vix[CHOOSE j \in hits : TRUE].v]]

\* the value ffill leaves in row i of a column: the last valid one so far
LastValid(rows, i, column) ==
    LET ok == {j \in 1..i : ~IsNaN(rows[j][column])}
    IN  IF ok = {} THEN NaN
        ELSE rows[CHOOSE j \in ok : \A k \in ok : k <= j][column]

\* Mutant: no forward fill.
ffill_None(rows) == rows

\* DataFrame.ffill()
ffill(rows) ==
    [i \in 1..Len(rows) |->
        [t         |-> rows[i].t,
         Close     |-> LastValid(rows, i, "Close"),
         SMA90     |-> LastValid(rows, i, "SMA90"),
         SMA125    |-> LastValid(rows, i, "SMA125"),
         SMA150    |-> LastValid(rows, i, "SMA150"),
         VIX_Close |-> LastValid(rows, i, "VIX_Close")]]

\* DataFrame.dropna(): rows with a missing value in any column go
dropna_rows(rows) ==
    SelectSeq(rows, LAMBDA r : ~(IsNaN(r.Close) \/ IsNaN(r.SMA90) \/ IsNaN(r.SMA125)
                                 \/ IsNaN(r.SMA150) \/ IsNaN(r.VIX_Close)))

\* .astype(int) of a boolean
AsInt(b) == IF b THEN 1 ELSE 0

\* app.py lines 337-356: the nine status columns of one row
StatusColumns(r) ==
    [t |-> r.t, Close |-> r.Close, SMA90 |-> r.SMA90, SMA125 |-> r.SMA125,
     SMA150 |-> r.SMA150, VIX_Close |-> r.VIX_Close,
     STATUS_M2K    |-> AsInt(Gt(r.Close, r.SMA90)  /\ Lt(r.VIX_Close, R(VIX_LOW))),
     STATUS_MES    |-> AsInt(Gt(r.Close, r.SMA125) /\ Lt(r.VIX_Close, R(VIX_LOW))),
     STATUS_MNQ    |-> AsInt(Lt(r.Close, r.SMA150) /\ Gt(r.VIX_Close, R(VIX_HIGH))),
     STATUS_ZSCORE |-> AsInt(Gt(r.Close, r.SMA125) /\ Lt(r.VIX_Close, R(VIX_HIGH))),
     STATUS_MGC_ZSCORE |->
         AsInt(Ge(r.Close, Scale(r.SMA125, 98, 100)) /\ Lt(r.VIX_Close, R(VIX_HIGH))),
     STATUS_MNQ_TREND |->
         AsInt(Gt(r.Close, Scale(r.SMA125, 102, 100)) /\ Ge(r.VIX_Close, R(VIX_LOW))),
     STATUS_BIAS_INTRAWEEK |->
         AsInt(Gt(r.Close, Scale(r.SMA125, 102, 100)) /\ Lt(r.VIX_Close, R(VIX_HIGH))),
     STATUS_DONCHIAN |->
         AsInt(Gt(r.Close, Scale(r.SMA125, 102, 100)) /\ Lt(r.VIX_Close, R(VIX_HIGH))),
     STATUS_MYM_SUSHI |->
         AsInt(Gt(r.Close, Scale(r.SMA125, 102, 100))
               /\ (Ge(r.VIX_Close, R(VIX_LOW)) /\ Lt(r.VIX_Close, R(VIX_HIGH))))]

\* app.py lines 331-356: df_storico with its status columns
History(spx, vix) ==
    LET rows == dropna_rows(ffill(join_left(SpxFrame(spx), vix)))
    IN  [i \in 1..Len(rows) |-> StatusColumns(rows[i])]

(***************************************************************************)
(* send_telegram_message and the message texts                             *)
(***************************************************************************)
\* What the POST can do: answer 200, answer another 2xx, answer an error
\* status, or raise a requests.RequestException (timeout, connection).
HttpOutcomes == {"200", "204", "400", "exc"}

\* Mutant: the except clause catches timeouts only, an HTTP error escapes.
send_telegram_message_NarrowExcept(has_creds, outcome) ==
    IF ~has_creds
    THEN [posted |-> FALSE, raised |-> FALSE,
          printed |-> <<"ERRORE: TELEGRAM_BOT_TOKEN/TELEGRAM_CHAT_ID non impostati.">>]
    ELSE IF outcome = "exc"
    THEN [posted |-> TRUE, raised |-> FALSE, printed |-> <<"Errore invio Telegram">>]
    ELSE IF outcome = "400"
    THEN [posted |-> TRUE, raised |-> TRUE, printed |-> <<"Telegram API error">>]
    ELSE IF outcome = "204"
    THEN [posted |-> TRUE, raised |-> FALSE,
          printed |-> <<"Telegram API error", "Messaggio Telegram inviato con successo.">>]
    ELSE [posted |-> TRUE, raised |-> FALSE,
          printed |-> <<"Messaggio Telegram inviato con successo.">>]

\* the effect of one call: whether a POST was made, what was printed, and
\* whether an exception left the function
send_telegram_message(has_creds, outcome) ==
    IF ~has_creds
    THEN [posted |-> FALSE, raised |-> FALSE,
          printed |-> <<"ERRORE: TELEGRAM_BOT_TOKEN/TELEGRAM_CHAT_ID non impostati.">>]
    ELSE IF outcome = "exc"
    THEN [posted |-> TRUE, raised |-> FALSE, printed |-> <<"Errore invio Telegram">>]
    ELSE IF outcome = "400"
    THEN [posted |-> TRUE, raised |-> FALSE,
          printed |-> <<"Telegram API error", "Errore invio Telegram">>]
    ELSE IF outcome = "204"
    THEN [posted |-> TRUE, raised |-> FALSE,
          printed |-> <<"Telegram API error", "Messaggio Telegram inviato con successo.">>]
    ELSE [posted |-> TRUE, raised |-> FALSE,
          printed |-> <<"Messaggio Telegram inviato con successo.">>]

EscapeToken(tok) ==
    CASE tok = "&"  -> "&amp;"
      [] tok = "<"  -> "&lt;"
      [] tok = ">"  -> "&gt;"
      [] tok = "\"" -> "&quot;"
      [] tok = "'"  -> "&#x27;"
      [] OTHER      -> tok

\* html.escape(text)
html_escape(text) == [i \in 1..Len(text) |-> EscapeToken(text[i])]

Tag(name) == <<"<", name, ">">>

\* the text sent when a download gave nothing
ErrorMessage ==
    Tag("b") \o <<"Errore Dati">> \o Tag("/b") \o Tag("br/")
    \o <<"Impossibile scaricare SPX o VIX.">>

DodText(dod) == IF IsNaN(dod) THEN "" ELSE Signed2(dod) \o "%"

values_lines(p, v, pp, pv, s90, s125, s150) ==
    << <<"SPX     : ", fmt_num(p), "  (", DodText(pct(p, pp)), " vs ieri)">>,
       <<"VIX     : ", fmt_num(v), "  (", DodText(pct(v, pv)), " vs ieri)">>,
       <<"SMA90   : ", fmt_num(s90)>>,
       <<"SMA125  : ", fmt_num(s125)>>,
       <<"SMA150  : ", fmt_num(s150)>> >>

PreBlock(lines) ==
    Tag("pre") \o html_escape(Join(lines, <<"\n">>)) \o Tag("/pre")

\* the report text: "\n".join(parts)
ReportMessage(p, v, pp, pv, s90, s125, s150, reg, lines, url, tz) ==
    Join(<< Tag("b") \o <<"Report Strategie -- Kriterion Quant">> \o Tag("/b"),
            Tag("i") \o <<"NOW", " (">> \o tz \o <<")">> \o Tag("/i"),
            <<>>,
            Tag("b") \o <<"Valori attuali">> \o Tag("/b"),
            PreBlock(values_lines(p, v, pp, pv, s90, s125, s150)),
            Tag("b") \o <<"Regime:">> \o Tag("/b") \o <<" ", reg>>,
            <<>>,
            Tag("b") \o <<"Stato Strategie">> \o Tag("/b"),
            PreBlock(lines) >>
         \o (IF Len(url) > 0
             THEN << <<"<", "a href=", "\"">> \o html_escape(url)
                     \o <<"\"", ">", "Apri dashboard">> \o Tag("/a") >>
             ELSE <<>>),
         <<"\n">>)

(***************************************************************************)
(* Spec: one run of one script, from the downloads to its last statement.  *)
(***************************************************************************)
MaxRows == 2

Times == {1, 2}

SpxCloseVals == {0, 4900, 5000}

VixCloseVals == {12, 25}

\* every response of at most MaxRows rows, in any order, timestamps repeated or not
Responses(vals) ==
    UNION {[1..n -> [t : Times, c : Cells(vals)]] : n \in 0..MaxRows}

\* TIMEZONE: the default, and a value that names no zone
Timezones == {<<"Europe/Sofia">>, <<"GMT", "<", "+2", ">">>}

DashboardUrls == {<<>>, <<"https://kq.example/app?tab=1", "&", "period=2y">>}

Init ==
    /\ EvalIdle
    /\ SmaIdle
    /\ NormIdle
    /\ ColIdle
    /\ prog \in {"alert", "app"}
    /\ pc = "start"
    /\ creds \in (IF prog = "alert" THEN BOOLEAN ELSE {FALSE})
    /\ dashboard_url \in (IF prog = "alert" THEN DashboardUrls ELSE {<<>>})
    /\ last_resp = <<>> /\ spx_close = <<>> /\ vix_close = <<>>
    /\ prev_spx = NaN /\ prev_vix = NaN
    /\ sent = <<>> /\ posts = <<>> /\ printed = <<>> /\ raised = FALSE
    /\ st_errors = 0 /\ kpis = <<>>
    /\ timezone \in (IF prog = "alert" THEN Timezones ELSE {<<>>})
    /\ fetches = <<>> /\ df_storico = <<>>

\* run_daily_check.py line 132
AlertLoadSpx ==
    /\ prog = "alert" /\ pc = "start"
    /\ \E resp \in Responses(SpxCloseVals) :
          /\ last_resp' = resp
          /\ spx_close' = load_close_series(resp)
    /\ fetches' = Append(fetches, SPX_TICKER)
    /\ pc' = "spx_loaded"
    /\ UNCHANGED <<evalVars, smaVars, normVars, colVars, prog, creds, dashboard_url, timezone, vix_close,
                   prev_spx, prev_vix, sent, posts, printed, raised, st_errors, kpis,
                   df_storico>>

\* run_daily_check.py line 133
AlertLoadVix ==
    /\ prog = "alert" /\ pc = "spx_loaded"
    /\ \E resp \in Responses(VixCloseVals) :
          /\ last_resp' = resp
          /\ vix_close' = load_close_series(resp)
    /\ fetches' = Append(fetches, VIX_TICKER)
    /\ pc' = "vix_loaded"
    /\ UNCHANGED <<evalVars, smaVars, normVars, colVars, prog, creds, dashboard_url, timezone, spx_close,
                   prev_spx, prev_vix, sent, posts, printed, raised, st_errors, kpis,
                   df_storico>>

\* Mutant: a dispatch that did not get a 200 is attempted a second time.
Dispatch_RetryOnce(body) ==
    \E outcome \in HttpOutcomes :
        LET eff == send_telegram_message(creds, outcome)
            n   == IF eff.posted /\ outcome # "200" THEN 2 ELSE 1
        IN  /\ sent' = sent \o [i \in 1..n |-> body]
            /\ posts' = IF eff.posted THEN posts \o [i \in 1..n |-> outcome] ELSE posts
            /\ printed' = printed \o eff.printed
            /\ raised' = eff.raised
            /\ pc' = IF eff.raised THEN "crashed" ELSE "done"

\* one call of send_telegram_message with the text body, then the end of the run
Dispatch(body) ==
    \E outcome \in HttpOutcomes :
        LET eff == send_telegram_message(creds, outcome)
        IN  /\ sent' = Append(sent, body)
            /\ posts' = IF eff.posted THEN Append(posts, outcome) ELSE posts
            /\ printed' = printed \o eff.printed
            /\ raised' = eff.raised
            /\ pc' = IF eff.raised THEN "crashed" ELSE "done"

\* run_daily_check.py lines 135-137
AlertDataError ==
    /\ prog = "alert" /\ pc = "vix_loaded"
    /\ Len(spx_close) = 0 \/ Len(vix_close) = 0
    /\ Dispatch(ErrorMessage)
    /\ last_resp' = <<>>
    /\ UNCHANGED <<evalVars, smaVars, normVars, colVars, prog, creds, dashboard_url, timezone, spx_close, vix_close,
                   prev_spx, prev_vix, st_errors, kpis, fetches, df_storico>>

\* run_daily_check.py lines 139-218
AlertReport ==
    /\ prog = "alert" /\ pc = "vix_loaded"
    /\ ~(Len(spx_close) = 0 \/ Len(vix_close) = 0)
    /\ LET col == CloseColumn(spx_close)
           n   == Len(col)
           m   == Len(vix_close)
       IN  /\ spx_price' = col[n]
           /\ vix_price' = vix_close[m].v
           /\ prev_spx' = IF n > 1 THEN col[n - 1] ELSE NaN
           /\ prev_vix' = IF m > 1 THEN vix_close[m - 1].v ELSE NaN
           /\ sma90'  = rolling_mean(col, W90, n)
           /\ sma125' = rolling_mean(col, W125, n)
           /\ sma150' = rolling_mean(col, W150, n)
    /\ strategies' = AlertStrategies(spx_price', vix_price', sma90', sma125', sma150')
    /\ regime' = AlertRegime(spx_price', vix_price', sma125', sma150')
    /\ strat_lines' = AlertStratLines(strategies', spx_price', vix_price',
                                      sma90', sma125', sma150')
    /\ Dispatch(ReportMessage(spx_price', vix_price', prev_spx', prev_vix',
                              sma90', sma125', sma150', regime', strat_lines',
                              dashboard_url, timezone))
    /\ last_resp' = <<>>
    /\ UNCHANGED <<smaVars, normVars, colVars, prog, creds, dashboard_url, timezone, spx_close, vix_close,
                   df_strat, regime_label, st_errors, kpis, fetches, df_storico>>

\* app.py line 102
AppLoadSpx ==
    /\ prog = "app" /\ pc = "start"
    /\ \E resp \in Responses(SpxCloseVals) :
          /\ last_resp' = resp
          /\ spx_close' = load_data(resp)
    /\ fetches' = Append(fetches, SPX_TICKER)
    /\ pc' = "spx_loaded"
    /\ UNCHANGED <<evalVars, smaVars, normVars, colVars, prog, creds, dashboard_url, timezone, vix_close,
                   prev_spx, prev_vix, sent, posts, printed, raised, st_errors, kpis,
                   df_storico>>

\* app.py line 103
AppLoadVix ==
    /\ prog = "app" /\ pc = "spx_loaded"
    /\ \E resp \in Responses(VixCloseVals) :
          /\ last_resp' = resp
          /\ vix_close' = load_data(resp)
    /\ fetches' = Append(fetches, VIX_TICKER)
    /\ pc' = "vix_loaded"
    /\ UNCHANGED <<evalVars, smaVars, normVars, colVars, prog, creds, dashboard_url, timezone, spx_close,
                   prev_spx, prev_vix, sent, posts, printed, raised, st_errors, kpis,
                   df_storico>>

\* app.py lines 105-107: st.error, st.stop
AppDataError ==
    /\ prog = "app" /\ pc = "vix_loaded"
    /\ Len(spx_close) = 0 \/ Len(vix_close) = 0
    /\ st_errors' = st_errors + 1
    /\ pc' = "stopped"
    /\ last_resp' = <<>>
    /\ UNCHANGED <<evalVars, smaVars, normVars, colVars, prog, creds, dashboard_url, timezone, spx_close, vix_close,
                   prev_spx, prev_vix, sent, posts, printed, raised, kpis,
                   fetches, df_storico>>

\* app.py: fmt
fmt(x) == IF IsNaN(x) THEN DASH ELSE Grouped2(x)

\* app.py lines 159-161: f"{d:.2f}%" if not np.isnan(d) else the dash
KpiPct(d) == IF IsNaN(d) THEN DASH ELSE Fixed2(d) \o "%"

\* app.py lines 109-161, 244-308 and 328-356
AppRender ==
    /\ prog = "app" /\ pc = "vix_loaded"
    /\ ~(Len(spx_close) = 0 \/ Len(vix_close) = 0)
    /\ LET col == CloseColumn(spx_close)
           n   == Len(col)
           m   == Len(vix_close)
       IN  /\ spx_price' = col[n]
           /\ vix_price' = vix_close[m].v
           /\ prev_spx' = IF n > 1 THEN col[n - 1] ELSE NaN
           /\ prev_vix' = IF m > 1 THEN vix_close[m - 1].v ELSE NaN
           /\ sma90'  = rolling_mean(col, W90, n)
           /\ sma125' = rolling_mean(col, W125, n)
           /\ sma150' = rolling_mean(col, W150, n)
    /\ regime_label' = AppRegime(spx_price', vix_price', sma125', sma150')
    /\ kpis' = << fmt(spx_price'), fmt(vix_price'),
                  KpiPct(pct(spx_price', sma125')),
                  KpiPct(pct(spx_price', sma90')),
                  KpiPct(pct(spx_price', sma150')) >>
    /\ df_strat' = strategy_rows(spx_price', vix_price', sma90', sma125', sma150')
    /\ df_storico' = History(spx_close, vix_close)
    /\ pc' = "done"
    /\ last_resp' = <<>>
    /\ UNCHANGED <<smaVars, normVars, colVars, prog, creds, dashboard_url, timezone, spx_close, vix_close,
                   strategies, strat_lines, regime, sent, posts, printed, raised,
                   st_errors, fetches>>

Next ==
    \/ AlertLoadSpx \/ AlertLoadVix \/ AlertDataError \/ AlertReport
    \/ AppLoadSpx \/ AppLoadVix \/ AppDataError \/ AppRender

Spec == Init /\ [][Next]_vars

(***************************************************************************)
(* SpecSMA: the three rolling means over a close column that grows one row *)
(* at a time.  The column holds a run of one close followed by a run of    *)
(* another, so every window is seen part-filled, full, and sliding over    *)
(* the change.                                                             *)
(***************************************************************************)
MaxHist == 152

HistVals == {4800, 5000}

InitSMA ==
    /\ EvalIdle
    /\ RunIdle
    /\ NormIdle
    /\ ColIdle
    /\ closes = <<>>
    /\ roll = [w \in Windows |-> RollZero]

\* one more row of the column: each accumulator takes it in, and the latest
\* value of each average is read (app.py lines 110-113 and 124-126,
\* run_daily_check.py lines 146-148)
RollAppend ==
    /\ Len(closes) < MaxHist
    /\ \E x \in HistVals :
          /\ Len(closes) > 0 =>
                (R(x) = closes[Len(closes)] \/ closes[1] = closes[Len(closes)])
          /\ closes' = Append(closes, R(x))
          /\ spx_price' = R(x)
    /\ roll' = [w \in Windows |-> RollStep(roll[w], closes', Len(closes'), w)]
    /\ sma90'  = RollValue(roll'[W90], W90)
    /\ sma125' = RollValue(roll'[W125], W125)
    /\ sma150' = RollValue(roll'[W150], W150)
    /\ UNCHANGED <<runVars, normVars, colVars, vix_price, strategies, strat_lines,
                   regime, df_strat, regime_label>>

NextSMA == RollAppend

SpecSMA == InitSMA /\ [][NextSMA]_vars

(***************************************************************************)
(* Properties of the evaluation (SpecEval)                                 *)
(***************************************************************************)
AlertEvaluated == strategies # <<>>

AppEvaluated == df_strat # <<>>

RegimeLabels == {"RISK-ON", "NEUTRAL", "RISK-OFF"}

OnCond == Gt(spx_price, sma125) /\ Lt(vix_price, R(VIX_HIGH))

OffCond == Lt(spx_price, sma150) \/ Gt(vix_price, R(VIX_HIGH))

\* C1: once a script has evaluated the regime, its label is exactly one of
\* risk-on, neutral, risk-off, for every finite (price, vix, sma125, sma150).
C1_RegimeTotalExclusive ==
    /\ AlertEvaluated => Cardinality({l \in RegimeLabels : regime = l}) = 1
    /\ AppEvaluated   => Cardinality({l \in RegimeLabels : regime_label = l}) = 1

C1_Witness ==
    /\ AlertEvaluated /\ AppEvaluated
    /\ regime = "NEUTRAL" /\ regime_label = "NEUTRAL"

\* C2 (as claimed): the regime is risk-off whenever price < sma150 or vix > 20.
C2_RiskOffWheneverOffCond ==
    /\ AlertEvaluated /\ OffCond => regime = "RISK-OFF"
    /\ AppEvaluated   /\ OffCond => regime_label = "RISK-OFF"

\* C2 (amended): the regime is risk-off whenever price < sma150 or vix > 20,
\* unless the risk-on test (price > sma125 and vix < 20), which is made first,
\* holds.
C2_RiskOffUnlessOn ==
    /\ AlertEvaluated /\ OffCond /\ ~OnCond => regime = "RISK-OFF"
    /\ AppEvaluated   /\ OffCond /\ ~OnCond => regime_label = "RISK-OFF"

C2_Witness ==
    /\ AlertEvaluated /\ AppEvaluated
    /\ Lt(spx_price, sma150) /\ Gt(spx_price, sma125) /\ vix_price = R(VIX_HIGH)
    /\ regime = "RISK-OFF" /\ regime_label = "RISK-OFF"

\* C3: the regime is risk-on exactly when price > sma125 and vix < 20, and
\* neutral exactly when neither that nor (price < sma150 or vix > 20) holds.
C3_OnAndNeutralExact ==
    /\ AlertEvaluated =>
        /\ (regime = "RISK-ON") <=> OnCond
        /\ (regime = "NEUTRAL") <=> (~OnCond /\ ~OffCond)
    /\ AppEvaluated =>
        /\ (regime_label = "RISK-ON") <=> OnCond
        /\ (regime_label = "NEUTRAL") <=> (~OnCond /\ ~OffCond)

C3_Witness ==
    /\ AlertEvaluated /\ AppEvaluated
    /\ vix_price = R(VIX_HIGH) /\ Ge(spx_price, sma150) /\ Gt(spx_price, sma125)
    /\ regime = "NEUTRAL" /\ regime_label = "NEUTRAL"

C4_Example == spx_price = R(4800) /\ sma150 = R(4900) /\ vix_price = R(25)

\* C4: with vix > 20 the regime is risk-off whatever the price; for price 4800,
\* sma150 4900, vix 25 the rule MNQ SHORT (SPX<SMA150 & VIX>20) is active.
C4_HighVixIsRiskOff ==
    /\ AlertEvaluated =>
        /\ Gt(vix_price, R(VIX_HIGH)) => regime = "RISK-OFF"
        /\ C4_Example =>
            /\ strategies[3].name = "MNQ SHORT" /\ strategies[3].rule = RULE_SMA150_GT20
            /\ strategies[3].is_on
    /\ AppEvaluated =>
        /\ Gt(vix_price, R(VIX_HIGH)) => regime_label = "RISK-OFF"
        /\ C4_Example =>
            /\ df_strat[3].Strategia = "MNQ SHORT" /\ df_strat[3].Regola = RULE_SMA150_GT20
            /\ df_strat[3].Stato = "ATTIVA"

C4_Witness ==
    /\ AlertEvaluated /\ AppEvaluated /\ C4_Example
    /\ Gt(spx_price, sma125)
    /\ regime = "RISK-OFF" /\ regime_label = "RISK-OFF"

\* What a rule label says, read from its tokens: the comparison left of "&"
\* on the price, the one right of it on the volatility.
AmpPos(label) == CHOOSE i \in 1..Len(label) : label[i] = "&"

LabelAvg(tok, s90, s125, s150) ==
    CASE tok = "SMA90"  -> s90
      [] tok = "SMA125" -> s125
      [] tok = "SMA150" -> s150
      [] tok = "125MA"  -> s125

LabelNum(tok) == CASE tok = "15" -> R(15) [] tok = "20" -> R(20)

LabelCmp(op, a, b) ==
    CASE op = <<">">>      -> Gt(a, b)
      [] op = <<"<">>      -> Lt(a, b)
      [] op = <<">", "=">> -> Ge(a, b)
      [] op = <<"<", "=">> -> Ge(b, a)

LabelPriceHolds(label, p, s90, s125, s150) ==
    LET pp  == SubSeq(label, 1, AmpPos(label) - 2)
        k   == IF pp[3] = "=" THEN 4 ELSE 3
        off == IF Len(pp) = k THEN 100 ELSE IF pp[k + 1] = "-2%" THEN 98 ELSE 102
    IN  /\ pp[1] = "SPX"
        /\ LabelCmp(SubSeq(pp, 2, k - 1), p,
                    Scale(LabelAvg(pp[k], s90, s125, s150), off, 100))

LabelVixHolds(label, v) ==
    LET vp == SubSeq(label, AmpPos(label) + 2, Len(label))
        k  == CHOOSE i \in 1..Len(vp) : vp[i] = "VIX"
    IN  /\ k > 1 => LabelCmp(SubSeq(vp, 2, k - 1), LabelNum(vp[1]), v)
        /\ LabelCmp(SubSeq(vp, k + 1, Len(vp) - 1), v, LabelNum(vp[Len(vp)]))

LabelHolds(label) ==
    /\ LabelPriceHolds(label, spx_price, sma90, sma125, sma150)
    /\ LabelVixHolds(label, vix_price)

C8_Example == spx_price = R(5000) /\ sma90 = R(4950) /\ vix_price = R(12)

\* C8: every rule of either table is active exactly when the price comparison
\* and the volatility comparison written in its label both hold; for price
\* 5000, sma90 4950, vix 12 the rule SPX>SMA90 & VIX<15 is active and its
\* margin against sma90 reads +1.01%.
C8_RuleIsItsLabel ==
    /\ AlertEvaluated =>
        /\ \A i \in 1..Len(strategies) :
              strategies[i].is_on <=> LabelHolds(strategies[i].rule)
        /\ C8_Example =>
            /\ strategies[1].rule = RULE_SMA90_LT15 /\ strategies[1].is_on
            /\ Contains(strat_lines[1], <<"dSPX/SMA90  ", "+1.01", "%">>)
    /\ AppEvaluated =>
        /\ \A i \in 1..Len(df_strat) :
              (df_strat[i].Stato = "ATTIVA") <=> LabelHolds(df_strat[i].Regola)
        /\ C8_Example =>
            /\ df_strat[1].Regola = RULE_SMA90_LT15 /\ df_strat[1].Stato = "ATTIVA"
            /\ Contains(df_strat[1].Margini, <<"dSPX90 ", "+1.01", "%">>)

C8_Witness ==
    /\ AlertEvaluated /\ AppEvaluated /\ C8_Example
    /\ strategies[1].is_on /\ df_strat[1].Stato = "ATTIVA"
    /\ ~strategies[2].is_on

\* C9 (as claimed): for the same latest values both scripts evaluate the same
\* ordered list of named rules, with the same activation states and the same
\* regime label.
C9_SameRuleList ==
    AlertEvaluated /\ AppEvaluated =>
        /\ regime = regime_label
        /\ Len(strategies) = Len(df_strat)
        /\ \A i \in 1..Len(strategies) :
              /\ i <= Len(df_strat)
              /\ strategies[i].name = df_strat[i].Strategia
              /\ strategies[i].rule = df_strat[i].Regola
              /\ strategies[i].is_on <=> (df_strat[i].Stato = "ATTIVA")

\* C9 (amended): for the same latest values both scripts give the same regime
\* label, their first three rules (M2K SHORT, MES SHORT, MNQ SHORT) agree in
\* name, label and activation, and any two rules with the same label agree in
\* activation; the alert lists six rules and the dashboard nine.
C9_SharedRulesAgree ==
    AlertEvaluated /\ AppEvaluated =>
        /\ regime = regime_label
        /\ Len(strategies) = 6 /\ Len(df_strat) = 9
        /\ \A i \in 1..3 :
              /\ strategies[i].name = df_strat[i].Strategia
              /\ strategies[i].rule = df_strat[i].Regola
              /\ strategies[i].is_on <=> (df_strat[i].Stato = "ATTIVA")
        /\ \A i \in 1..Len(strategies), j \in 1..Len(df_strat) :
              strategies[i].rule = df_strat[j].Regola =>
                  (strategies[i].is_on <=> (df_strat[j].Stato = "ATTIVA"))

C9_Witness ==
    /\ AlertEvaluated /\ AppEvaluated
    /\ regime = "RISK-ON" /\ regime_label = "RISK-ON"
    /\ strategies[4].is_on /\ df_strat[4].Stato = "ATTIVA"
    /\ df_strat[6].Stato = "ATTIVA"

(***************************************************************************)
(* Properties of a run (Spec)                                              *)
(***************************************************************************)
Running == pc \in {"start", "spx_loaded", "vix_loaded"}

NothingEvaluated ==
    /\ IsNaN(spx_price) /\ IsNaN(vix_price)
    /\ IsNaN(sma90) /\ IsNaN(sma125) /\ IsNaN(sma150)
    /\ strategies = <<>> /\ strat_lines = <<>> /\ regime = ""
    /\ df_strat = <<>> /\ regime_label = "" /\ kpis = <<>>

NoUsableRows(resp) == \A i \in 1..Len(resp) : resp[i].c.k # "num"

DataMissing == Len(spx_close) = 0 \/ Len(vix_close) = 0

FailureLines == {"ERRORE: TELEGRAM_BOT_TOKEN/TELEGRAM_CHAT_ID non impostati.",
                 "Errore invio Telegram", "Telegram API error"}

\* C6: whatever the dispatch does (status other than 200, request exception,
\* credentials missing), send_telegram_message raises nothing: after the call
\* the run is at its normal end, and a failed dispatch has printed a line.
C6_DispatchFailureOnlyPrinted ==
    prog = "alert" /\ sent # <<>> =>
        /\ ~raised
        /\ pc = "done"
        /\ Len(sent) = 1
        /\ posts = <<>> <=> ~creds
        /\ (~creds \/ posts # <<"200">>) =>
              \E i \in 1..Len(printed) : printed[i] \in FailureLines

C6_Witness ==
    /\ prog = "alert" /\ pc = "done" /\ ~raised
    /\ strategies # <<>> /\ posts = <<"400">>
    /\ printed = <<"Telegram API error", "Errore invio Telegram">>

ZeroOrNaN(x) == IsNaN(x) \/ x.n = 0

\* C7 (as claimed): when an average is NaN or zero, the margin of every rule
\* that measures the price against that average shows the undefined marker.
C7_UndefinedMarginIsDash ==
    /\ \A i \in 1..Len(strat_lines) :
          /\ ZeroOrNaN(sma90) /\ Contains(strategies[i].rule, <<"SMA90">>)
                => Contains(strat_lines[i], <<"dSPX/SMA90  ", DASH>>)
          /\ ZeroOrNaN(sma125) /\ Contains(strategies[i].rule, <<"SMA125">>)
                => Contains(strat_lines[i], <<"dSPX/SMA125 ", DASH>>)
          /\ ZeroOrNaN(sma150) /\ Contains(strategies[i].rule, <<"SMA150">>)
                => Contains(strat_lines[i], <<"dSPX/SMA150 ", DASH>>)
    /\ \A i \in 1..Len(df_strat) :
          /\ ZeroOrNaN(sma90) /\ Contains(df_strat[i].Regola, <<"SMA90">>)
                => Contains(df_strat[i].Margini, <<"dSPX90 ", DASH>>)
          /\ ZeroOrNaN(sma125)
             /\ (Contains(df_strat[i].Regola, <<"SMA125">>)
                 \/ Contains(df_strat[i].Regola, <<"125MA">>))
                => Contains(df_strat[i].Margini, <<"dSPX125 ", DASH>>)
          /\ ZeroOrNaN(sma150) /\ Contains(df_strat[i].Regola, <<"SMA150">>)
                => Contains(df_strat[i].Margini, <<"dSPX150 ", DASH>>)

(***************************************************************************)
(* Properties of the rolling means (SpecSMA)                               *)
(***************************************************************************)
RECURSIVE SumRange(_, _, _)
\* col[lo] + ... + col[hi]
SumRange(col, lo, hi) ==
    IF lo > hi THEN 0 ELSE col[hi].n + SumRange(col, lo, hi - 1)

Min(a, b) == IF a < b THEN a ELSE b

\* x is the arithmetic mean of the last min(w, Len(col)) entries of col
IsTrailingMean(x, col, w) ==
    LET k == Min(w, Len(col))
    IN  /\ ~IsNaN(x)
        /\ x.n * k = SumRange(col, Len(col) - k + 1, Len(col)) * x.d

\* C10: at every row of a non-empty close column each of the three averages
\* is defined and is the mean of the last min(window, rows so far) closes.
\* Every prefix of a column is a state, so the latest row stands for row i.
C10_TrailingMeanNoGap ==
    Len(closes) > 0 =>
        /\ IsTrailingMean(sma90, closes, W90)
        /\ IsTrailingMean(sma125, closes, W125)
        /\ IsTrailingMean(sma150, closes, W150)

C10_Witness ==
    /\ Len(closes) = W150 + 1
    /\ closes[1] # closes[2]
    /\ ~IsNaN(sma150) /\ sma150.d = W150
    /\ sma150.n = W150 * closes[2].n

(***************************************************************************)
(* Properties of the normalization (SpecNorm)                              *)
(***************************************************************************)
\* the series the loaders have returned so far
Normalized == {s \in {series_alert, series_app} : s # NoFrame}

StrictlyIncreasing(rows) ==
    \A i \in 1..Len(rows), j \in 1..Len(rows) : i < j => rows[i].t < rows[j].t

OnlyNumbers(rows) == \A i \in 1..Len(rows) : ~IsNaN(rows[i].v)

IsNumeric(c) == c.k = "num"

\* the positions of timestamp t in a table
Occurrences(rows, t) == {i \in 1..Len(rows) : rows[i].t = t}

NumericOccurrences(rows, t) == {i \in Occurrences(rows, t) : IsNumeric(rows[i].c)}

Last(S) == CHOOSE i \in S : \A j \in S : j <= i

\* the series has a row for t and its value is the cell c, a number
Keeps(rows, t, c) ==
    /\ IsNumeric(c)
    /\ \E i \in 1..Len(rows) : rows[i].t = t /\ rows[i].v = R(c.x)

\* C11 as stated: whatever the table, the normalized series has strictly
\* increasing timestamps (so none twice), holds numbers only, and for each
\* timestamp that occurred several times keeps the value of its last
\* occurrence in the table.
C11_KeepsLastOccurrence ==
    \A s \in Normalized :
        /\ StrictlyIncreasing(s.rows)
        /\ OnlyNumbers(s.rows)
        /\ \A t \in NormTimes :
              Cardinality(Occurrences(frame.rows, t)) > 1 =>
                  Keeps(s.rows, t, frame.rows[Last(Occurrences(frame.rows, t))].c)

\* C11 amended: the normalized series has strictly increasing timestamps,
\* holds numbers only, has a row exactly for the timestamps that have a
\* numeric cell somewhere in the table, and keeps for each of them the value
\* of its last numeric occurrence.
C11_KeepsLastNumericOccurrence ==
    \A s \in Normalized :
        /\ StrictlyIncreasing(s.rows)
        /\ OnlyNumbers(s.rows)
        /\ {s.rows[i].t : i \in 1..Len(s.rows)}
              = {t \in NormTimes : NumericOccurrences(frame.rows, t) # {}}
        /\ \A t \in NormTimes :
              NumericOccurrences(frame.rows, t) # {} =>
                  Keeps(s.rows, t, frame.rows[Last(NumericOccurrences(frame.rows, t))].c)

\* both loaders have normalized a table of three rows that is out of order
\* and has one timestamp twice, a number first and a missing cell last
C11_Witness ==
    /\ series_alert # NoFrame /\ series_app # NoFrame
    /\ Len(frame.rows) = 3
    /\ frame.rows[1].t > frame.rows[2].t
    /\ \E t \in NormTimes :
          /\ Cardinality(Occurrences(frame.rows, t)) = 2
          /\ Cardinality(NumericOccurrences(frame.rows, t)) = 1
          /\ ~IsNumeric(frame.rows[Last(Occurrences(frame.rows, t))].c)
    /\ Len(series_alert.rows) = 2

\* a series seen as a provider table again
AsFrame(s) ==
    [tz |-> s.tz,
     rows |-> [i \in 1..Len(s.rows) |->
                 [t |-> s.rows[i].t, c |-> [k |-> "num", x |-> s.rows[i].v.n]]]]

\* C12: normalization is idempotent; each loader applied to the series it
\* returned returns the same series.
C12_Idempotent ==
    /\ series_alert # NoFrame =>
          LoadCloseSeriesFrame(AsFrame(series_alert)) = series_alert
    /\ series_app # NoFrame =>
          LoadDataFrame(AsFrame(series_app)) = series_app

\* both loaders have normalized a zone-aware, unsorted table with a repeated
\* timestamp and a missing cell into a series of two rows
C12_Witness ==
    /\ frame.tz = "aware"
    /\ Len(frame.rows) = 3
    /\ \E i \in 1..2 : frame.rows[i].t > frame.rows[i + 1].t
    /\ \E i \in 1..3 : ~IsNumeric(frame.rows[i].c)
    /\ series_alert # NoFrame /\ Len(series_alert.rows) = 2
    /\ series_app = series_alert

(***************************************************************************)
(* Properties of the field selection (SpecCols)                            *)
(***************************************************************************)
\* the field of a choice
FieldOf(pick) ==
    IF pick.cols = {} THEN "none" ELSE columns.cols[First(pick.cols)].f

\* the field the stated chain gives: Close, else Adj Close, else the first
\* numeric column
ChainField ==
    IF ColumnsOf(columns.cols, "Close") # {} THEN "Close"
    ELSE IF ColumnsOf(columns.cols, "Adj Close") # {} THEN "Adj Close"
    ELSE IF NumberColumns(columns.cols) # {}
    THEN columns.cols[First(NumberColumns(columns.cols))].f
    ELSE "none"

\* C13 as stated: for flat and two-level labels alike, each loader takes the
\* field Close when present, otherwise Adj Close when present, otherwise the
\* first numeric field, so that the field never depends on the loader.
C13_OneFallbackChain ==
    /\ pick_alert # NoPick => FieldOf(pick_alert) = ChainField
    /\ pick_app # NoPick => FieldOf(pick_app) = ChainField

(***************************************************************************)
(* Properties of the message texts and of the run (Spec)                   *)
(***************************************************************************)
\* the tags the script writes itself
MarkupTags == {"b", "/b", "i", "/i", "pre", "/pre", "br/", "/a"}

Angle == {"<", ">"}

\* a tag of the script starts at position i of the text: <name>, or the
\* anchor <a href="..."> with no angle bracket inside
OpensTag(text, i) ==
    /\ text[i] = "<"
    /\ i + 2 <= Len(text)
    /\ \/ text[i + 1] \in MarkupTags /\ text[i + 2] = ">"
       \/ /\ text[i + 1] = "a href="
          /\ \E j \in (i + 2)..Len(text) :
                text[j] = ">" /\ \A k \in (i + 1)..(j - 1) : text[k] \notin Angle

\* the ">" at position j ends a tag of the script
ClosesTag(text, j) ==
    /\ text[j] = ">"
    /\ \E i \in 1..(j - 1) :
          OpensTag(text, i) /\ \A k \in (i + 1)..(j - 1) : text[k] \notin Angle

\* the tag <name> stands at position i of the text
TagAt(text, i, name) ==
    /\ i + 2 <= Len(text)
    /\ text[i] = "<" /\ text[i + 1] = name /\ text[i + 2] = ">"

\* position k lies in a <pre> block
InPre(text, k) ==
    \E i \in 1..(k - 3) :
        /\ TagAt(text, i, "pre")
        /\ \A j \in (i + 3)..k : ~TagAt(text, j, "/pre")

\* inside the <pre> blocks, which hold the rule text and the computed
\* values, the three characters occur in escaped form only
BlocksEscaped ==
    \A m \in 1..Len(sent) :
        \A k \in 1..Len(sent[m]) :
            InPre(sent[m], k) => sent[m][k] \notin {"<", ">", "&"}

\* C14 as stated: in every text handed to the dispatch call, the blocks of
\* rule text and computed values hold "<", ">" and "&" in escaped form only,
\* and a raw "<" or ">" is always part of a tag the script wrote.
C14_OnlyEscapedOutsideTags ==
    /\ BlocksEscaped
    /\ \A m \in 1..Len(sent) :
          \A k \in 1..Len(sent[m]) :
              /\ sent[m][k] = "<" => OpensTag(sent[m], k)
              /\ sent[m][k] = ">" => ClosesTag(sent[m], k)

\* C15: an alert run downloads SPX once, then VIX once, both before anything
\* is evaluated, and calls the dispatch at most once, making at most one
\* POST, whatever the downloads and the POST gave.
C15_NoRetries ==
    prog = "alert" =>
        /\ fetches = (CASE pc = "start"      -> <<>>
                        [] pc = "spx_loaded" -> <<SPX_TICKER>>
                        [] OTHER             -> <<SPX_TICKER, VIX_TICKER>>)
        /\ (regime # "" \/ strategies # <<>>) => fetches = <<SPX_TICKER, VIX_TICKER>>
        /\ Len(sent) <= 1
        /\ Len(posts) <= Len(sent)
        /\ Len(sent) = 1 <=> pc \in {"done", "crashed"}

\* an alert run has ended after an empty SPX download and a POST that failed
C15_Witness ==
    /\ prog = "alert" /\ pc = "done"
    /\ Len(spx_close) = 0
    /\ fetches = <<SPX_TICKER, VIX_TICKER>>
    /\ posts = <<"exc">>
    /\ sent = <<ErrorMessage>>

(***************************************************************************)
(* The history against the current-state table (Spec)                      *)
(***************************************************************************)
\* the status columns in the order of the rows of the current-state table
StatusOfRule(r) ==
    << r.STATUS_M2K, r.STATUS_MES, r.STATUS_MNQ, r.STATUS_ZSCORE,
       r.STATUS_MGC_ZSCORE, r.STATUS_MNQ_TREND, r.STATUS_BIAS_INTRAWEEK,
       r.STATUS_DONCHIAN, r.STATUS_MYM_SUSHI >>

\* the last row of the history shows, rule by rule, the state of the table
LastRowAgrees ==
    LET last == df_storico[Len(df_storico)]
    IN  \A i \in 1..9 :
            (StatusOfRule(last)[i] = 1) <=> (df_strat[i].Stato = "ATTIVA")

Rendered == prog = "app" /\ pc = "done"

TimesOf(series) == {series[i].t : i \in 1..Len(series)}

\* C16 as stated: whenever the dashboard has rendered, whatever the two
\* series and also when they end on different timestamps, the last row of
\* the joined history agrees with the current-state table on each of the
\* nine rules.
C16_HistoryEndsAtCurrentState ==
    (Rendered /\ Len(df_storico) > 0) => LastRowAgrees

\* C16 amended: when the last VIX timestamp is also a timestamp of the SPX
\* series, the history is not empty, its last row is the last SPX row and it
\* agrees with the current-state table on each of the nine rules.
C16_AgreesWhenVixEndsOnSpxRow ==
    (Rendered /\ vix_close[Len(vix_close)].t \in TimesOf(spx_close)) =>
        /\ Len(df_storico) > 0
        /\ df_storico[Len(df_storico)].t = spx_close[Len(spx_close)].t
        /\ LastRowAgrees

\* the dashboard has rendered with VIX ending a row before SPX, the forward
\* fill carrying its close to the last row, and a rule active in both views
C16_Witness ==
    /\ Rendered
    /\ Len(spx_close) = 2 /\ Len(vix_close) = 1
    /\ vix_close[1].t = spx_close[1].t
    /\ Len(df_storico) = 2
    /\ df_storico[2].STATUS_M2K = 1
    /\ df_strat[1].Stato = "ATTIVA"
====
